---- MODULE Spec2Model ----
(***************************************************************************)
(* Model of script.py: the mockup generator that detects the white frame   *)
(* of a reference photograph (detect_frame_area), picks the reference      *)
(* whose frame ratio is closest to the artwork's (find_best_mockup) and    *)
(* pastes the scaled artwork into the frame (overlay_in_frame).            *)
(*                                                                         *)
(* Python floats are modelled as IEEE-754 doubles: a sign, a mantissa of    *)
(* 53 bits and an exponent, every operation rounded to nearest, ties to     *)
(* even.  No number of the model is large or small enough to overflow or    *)
(* to be subnormal.  OpenCV and Pillow are modelled by what their calls in  *)
(* script.py compute.                                                       *)
(***************************************************************************)
EXTENDS Integers, Sequences, FiniteSets, TLC

VARIABLES
    catalog,    \* the module global MOCKUPS as configured: orientation -> list of paths
    files,      \* the reference images on disk: path -> decoded BGR image
    call,       \* the operation last run, with its arguments
    ret,        \* what it returned or raised
    detected,   \* the paths detect_frame_area was run on during that operation
    locals,     \* overlay_in_frame's margin_px and margin-shrunk frame, or none
    pasted,     \* bg.paste of that operation: where and what size, or none
    saved       \* bg.save of that operation: the output path written, or none

vars == <<catalog, files, call, ret, detected, locals, pasted, saved>>

----------------------------------------------------------------------------
(* Program constants *)

DPI == 300

PPI == 96

THRESH == 240

MAXVAL == 255

\* the module global MOCKUPS as shipped
MOCKUPS ==
    [vertical |-> <<"mockup_vertical_small.jpeg", "mockup_vertical_large.jpeg">>,
     horizontal |-> <<"mockup_horizontal_large.png">>]

Paths == {"mockup_vertical_small.jpeg", "mockup_vertical_large.jpeg",
          "mockup_horizontal_large.png"}

----------------------------------------------------------------------------
(* Bounds of the model *)

\* the pixel grids of the detector's specification are ImgW x ImgH, and
\* RingW x RingH for the images that hold a bright outline
ImgW == 5

ImgH == 3

RingW == 5

RingH == 5

\* the reference images of the pipeline's specification are CanvasW x CanvasH
CanvasW == 10

CanvasH == 8

\* main is run on foregrounds of 1 .. MaxFgDim pixels a side
MaxFgDim == 4

\* find_best_mockup is called with art widths 0 .. MaxArt and art heights
\* 0 .. MaxArt + 1 inches
MaxArt == 3

\* overlay_in_frame is called with frames of 1 .. MaxFrame pixels a side,
\* foregrounds of 1 .. MaxFg pixels a side and margins of k/256 inch,
\* |k| <= MaxMargin, beside the margins of CentiMargins
MaxFrame == 6

MaxFg == 6

MaxMargin == 2

\* the pixels-per-inch values the orientation is compared under
MaxPpi == 3

----------------------------------------------------------------------------
(* Small helpers *)

Abs(n) == IF n < 0 THEN -n ELSE n

Min(S) == CHOOSE m \in S : \A n \in S : m <= n

Max(S) == CHOOSE m \in S : \A n \in S : m >= n

None == [kind |-> "none"]

\* raise ValueError(msg) about arg
Raise(msg, arg) == [kind |-> "error", type |-> "ValueError", msg |-> msg, arg |-> arg]

\* what a float division by 0.0 raises
ZeroDivisionError ==
    [kind |-> "error", type |-> "ZeroDivisionError", msg |-> "float division by zero",
     arg |-> ""]

----------------------------------------------------------------------------
(* Images: [w, h, px] with px a function of <<x, y>>, 0-based, to a BGR    *)
(* triple, as cv2.imread returns them.                                     *)

Black == <<0, 0, 0>>

Grey240 == <<240, 240, 240>>

Grey241 == <<241, 241, 241>>

White == <<255, 255, 255>>

Yellow == <<0, 255, 255>>

Points(w, h) == (0 .. w - 1) \X (0 .. h - 1)

\* a rectangle of pixels, [x0, x1] x [y0, y1]; x0 > x1 is the empty one
NoRect == [x0 |-> 1, y0 |-> 1, x1 |-> 0, y1 |-> 0]

RectsIn(w, h) ==
    { r \in [x0 : 0 .. w - 1, y0 : 0 .. h - 1, x1 : 0 .. w - 1, y1 : 0 .. h - 1] :
        r.x0 <= r.x1 /\ r.y0 <= r.y1 }

InRect(p, r) == r.x0 <= p[1] /\ p[1] <= r.x1 /\ r.y0 <= p[2] /\ p[2] <= r.y1

\* an image of colour bg with the rectangles r1 and r2 filled with colour fg
Paint(w, h, bg, fg, r1, r2) ==
    [w |-> w, h |-> h,
     px |-> [p \in Points(w, h) |-> IF InRect(p, r1) \/ InRect(p, r2) THEN fg ELSE bg]]

OnOutline(p, r) ==
    InRect(p, r) /\ (p[1] = r.x0 \/ p[1] = r.x1 \/ p[2] = r.y0 \/ p[2] = r.y1)

\* an image of colour bg with the outline of r1 and the filled r2 in colour fg
PaintOutline(w, h, bg, fg, r1, r2) ==
    [w |-> w, h |-> h,
     px |-> [p \in Points(w, h) |-> IF OnOutline(p, r1) \/ InRect(p, r2) THEN fg ELSE bg]]

----------------------------------------------------------------------------
(* detect_frame_area *)

\* cv2.cvtColor(img, COLOR_BGR2GRAY) of OpenCV 4 (the two-value findContours
\* of the code): Y = 0.299 R + 0.587 G + 0.114 B in 15-bit fixed point, rounded
cvtColor(img) ==
    [p \in DOMAIN img.px |->
        (img.px[p][3] * 9798 + img.px[p][2] * 19235 + img.px[p][1] * 3735 + 16384) \div 32768]

\* (mutation: 240 itself counted as bright)
thresholdInclusive(gray) == [p \in DOMAIN gray |-> IF gray[p] >= THRESH THEN MAXVAL ELSE 0]

\* cv2.threshold(gray, 240, 255, THRESH_BINARY): maxval where gray > thresh, else 0
threshold(gray) == [p \in DOMAIN gray |-> IF gray[p] > THRESH THEN MAXVAL ELSE 0]

Foreground(thresh) == {p \in DOMAIN thresh : thresh[p] # 0}

\* S with the foreground pixels 8-connected to it; Fr holds the pixels of S
\* added last
RECURSIVE Grow(_, _, _)
Grow(S, Fr, F) ==
    LET N == ({<<s[1] + dx, s[2] + dy>> : s \in Fr, dx \in {-1, 0, 1}, dy \in {-1, 0, 1}}
              \cap F) \ S
    IN IF N = {} THEN S ELSE Grow(S \cup N, N, F)

\* the first pixel of a set in raster order (top row first, then leftmost)
RasterFirst(S) ==
    LET y == Min({p[2] : p \in S})
    IN <<Min({p[1] : p \in {q \in S : q[2] = y}}), y>>

\* the 8-connected components of the foreground, in the order the raster scan
\* of findContours meets them
RECURSIVE ComponentsOf(_)
ComponentsOf(F) ==
    IF F = {} THEN <<>>
    ELSE LET C == Grow({RasterFirst(F)}, {RasterFirst(F)}, F)
         IN <<C>> \o ComponentsOf(F \ C)

\* the eight neighbour directions of the border follower (y grows downwards)
Deltas == << <<1, 0>>, <<1, -1>>, <<0, -1>>, <<-1, -1>>,
             <<-1, 0>>, <<-1, 1>>, <<0, 1>>, <<1, 1>> >>

Move(p, s) == <<p[1] + Deltas[(s % 8) + 1][1], p[2] + Deltas[(s % 8) + 1][2]>>

\* from the start pixel, the first neighbour met turning clockwise from west;
\* 4 (west again) when the pixel is isolated
FirstNeighbour(i0, C) ==
    LET order == <<3, 2, 1, 0, 7, 6, 5>>
        hits == {i \in 1 .. 7 : Move(i0, order[i]) \in C}
    IN IF hits = {} THEN 4 ELSE order[Min(hits)]

\* the first direction after s, turning counter-clockwise, that leads to a
\* pixel of C
RECURSIVE NextDirection(_, _, _)
NextDirection(C, i3, s) ==
    IF Move(i3, s + 1) \in C THEN (s + 1) % 8 ELSE NextDirection(C, i3, s + 1)

\* follows the outer border from i3 (entered from direction s) until it is
\* back at i0 coming from i1; acc sums the cross products of the steps

RECURSIVE FollowBorder(_, _, _, _, _, _)
FollowBorder(C, i0, i1, i3, s, acc) ==
    LET s4 == NextDirection(C, i3, s)
        i4 == Move(i3, s4)
        acc2 == acc + (i3[1] * i4[2] - i4[1] * i3[2])
    IN IF i4 = i0 /\ i3 = i1 THEN acc2
       ELSE FollowBorder(C, i0, i1, i4, (s4 + 4) % 8, acc2)

\* twice cv2.contourArea of the outer contour of component C: the polygon
\* through the centres of its border pixels (Green's formula)
contourArea2(C) ==
    LET i0 == RasterFirst(C)
        s == FirstNeighbour(i0, C)
    IN IF s = 4 THEN 0 ELSE Abs(FollowBorder(C, i0, Move(i0, s), i0, s, 0))

\* S with the pixels of B 4-connected to it; Fr holds the pixels of S added
\* last
RECURSIVE Flood(_, _, _)
Flood(S, Fr, B) ==
    LET N == ({<<s[1] + d[1], s[2] + d[2]>> :
                 s \in Fr, d \in {<<1, 0>>, <<-1, 0>>, <<0, 1>>, <<0, -1>>}} \cap B) \ S
    IN IF N = {} THEN S ELSE Flood(S \cup N, N, B)

\* the background reached from outside the image: findContours scans the
\* image inside a border of zeros
Outside(thresh) ==
    LET w == Max({p[1] : p \in DOMAIN thresh}) + 1
        h == Max({p[2] : p \in DOMAIN thresh}) + 1
        padded == (-1 .. w) \X (-1 .. h)
        border == {p \in padded : p[1] = -1 \/ p[1] = w \/ p[2] = -1 \/ p[2] = h}
    IN Flood(border, border, padded \ Foreground(thresh))

\* RETR_EXTERNAL keeps the outer border of a component only if no other
\* component surrounds it: the scan meets it coming from the outside
\* background.  (A lone component is surrounded by none.)
IsExternal(C, cs, thresh) ==
    Len(cs) = 1 \/ <<RasterFirst(C)[1] - 1, RasterFirst(C)[2]>> \in Outside(thresh)

\* cv2.findContours(thresh, RETR_EXTERNAL, CHAIN_APPROX_SIMPLE): the outer
\* contours of the components no other one surrounds, the one found last
\* first
findContours(thresh) ==
    LET cs == ComponentsOf(Foreground(thresh))
        ext == SelectSeq(cs, LAMBDA C : IsExternal(C, cs, thresh))
    IN [i \in 1 .. Len(ext) |-> ext[Len(ext) + 1 - i]]

\* (mutation: the first contour, whatever its area)
FirstContour(contours) == contours[1]

\* max(contours, key=cv2.contourArea) from index i on: a later contour
\* replaces the best one only when its area is larger
RECURSIVE MaxFrom(_, _, _, _)
MaxFrom(contours, i, best, bestArea) ==
    IF i > Len(contours) THEN best
    ELSE LET a == contourArea2(contours[i])
         IN IF a > bestArea THEN MaxFrom(contours, i + 1, contours[i], a)
            ELSE MaxFrom(contours, i + 1, best, bestArea)

LargestContour(contours) == MaxFrom(contours, 2, contours[1], contourArea2(contours[1]))

\* cv2.boundingRect
boundingRect(C) ==
    LET xs == {p[1] : p \in C}
        ys == {p[2] : p \in C}
    IN <<Min(xs), Min(ys), Max(xs) - Min(xs) + 1, Max(ys) - Min(ys) + 1>>

detect_frame_area(image_path) ==
    LET img == files[image_path]
        gray == cvtColor(img)
        thresh == threshold(gray)
        contours == findContours(thresh)
    IN IF contours = <<>>
       THEN Raise("No contours found in image", image_path)
       ELSE [kind |-> "ok", value |-> boundingRect(LargestContour(contours))]

----------------------------------------------------------------------------
(* Python floats: IEEE-754 doubles.  A double is [s, hi, lo, e] of value    *)
(* s * (hi * 2^27 + lo) * 2^e, with s the sign (0 for zero) and the         *)
(* mantissa hi * 2^27 + lo of exactly 53 bits.  Wide naturals are tuples of *)
(* four limbs of 27 bits, the lowest first.                                 *)

Limb == 2 ^ 27

WLimb(W, i) == IF i >= 1 /\ i <= 4 THEN W[i] ELSE 0

WLess(A, B) == \E i \in 1 .. 4 : A[i] < B[i] /\ \A j \in i + 1 .. 4 : A[j] = B[j]

\* the limbs of a sum or a difference, the carries and borrows passed on
Carry(s1, s2, s3, s4) ==
    <<s1 % Limb,
      (s2 + (s1 \div Limb)) % Limb,
      (s3 + ((s2 + (s1 \div Limb)) \div Limb)) % Limb,
      s4 + ((s3 + ((s2 + (s1 \div Limb)) \div Limb)) \div Limb)>>

WAdd(A, B) == Carry(A[1] + B[1], A[2] + B[2], A[3] + B[3], A[4] + B[4])

WSub(A, B) == Carry(A[1] - B[1], A[2] - B[2], A[3] - B[3], A[4] - B[4])

\* limb i of W * 2^(27 q + r)
ShlLimb(W, i, q, r) ==
    (WLimb(W, i - q) % (2 ^ (27 - r))) * (2 ^ r) + (WLimb(W, i - q - 1) \div (2 ^ (27 - r)))

ShlBy(W, q, r) == <<ShlLimb(W, 1, q, r), ShlLimb(W, 2, q, r), ShlLimb(W, 3, q, r), ShlLimb(W, 4, q, r)>>

\* W * 2^n
WShl(W, n) == ShlBy(W, n \div 27, n % 27)

\* limb i of W \div 2^(27 q + r)
ShrLimb(W, i, q, r) ==
    (WLimb(W, i + q) \div (2 ^ r)) + (WLimb(W, i + q + 1) % (2 ^ r)) * (2 ^ (27 - r))

ShrBy(W, q, r) == <<ShrLimb(W, 1, q, r), ShrLimb(W, 2, q, r), ShrLimb(W, 3, q, r), ShrLimb(W, 4, q, r)>>

\* W \div 2^n
WShr(W, n) == ShrBy(W, n \div 27, n % 27)

BitLen(x) == IF x = 0 THEN 0 ELSE CHOOSE k \in 1 .. 27 : 2 ^ (k - 1) <= x /\ x < 2 ^ k

WBitLen(W) ==
    IF W[4] # 0 THEN 81 + BitLen(W[4])
    ELSE IF W[3] # 0 THEN 54 + BitLen(W[3])
    ELSE IF W[2] # 0 THEN 27 + BitLen(W[2])
    ELSE BitLen(W[1])

\* <<low limb, carry>> of a * 2^14 + b
MulParts(a, b) ==
    <<((a % (2 ^ 13)) * (2 ^ 14) + (b % Limb)) % Limb,
      (a \div (2 ^ 13)) + (b \div Limb) + (((a % (2 ^ 13)) * (2 ^ 14) + (b % Limb)) \div Limb)>>

\* l * n as <<low limb, carry>>, for n < 2^16
MulLimb(l, n) == MulParts((l \div (2 ^ 14)) * n, (l % (2 ^ 14)) * n)

MulCarry(p1, p2, p3, p4) == Carry(p1[1], p2[1] + p1[2], p3[1] + p2[2], p4[1] + p3[2])

\* W * n, for n < 2^16
WMulSmall(W, n) == MulCarry(MulLimb(W[1], n), MulLimb(W[2], n), MulLimb(W[3], n), MulLimb(W[4], n))

\* 0.0
FZero == [s |-> 0, hi |-> 0, lo |-> 0, e |-> 0]

\* float('inf'), held as the power of two above every double
FInf == [s |-> 1, hi |-> 2 ^ 25, lo |-> 0, e |-> 972]

FPack(s, hi, lo, e) == [s |-> s, hi |-> hi, lo |-> lo, e |-> e]

\* the mantissa hi * 2^27 + lo, one more if up
RoundUp(s, hi, lo, e, up) ==
    IF ~up THEN FPack(s, hi, lo, e)
    ELSE IF lo + 1 < Limb THEN FPack(s, hi, lo + 1, e)
    ELSE IF hi + 1 < 2 ^ 26 THEN FPack(s, hi + 1, 0, e)
    ELSE FPack(s, 2 ^ 25, 0, e + 1)

\* N holds 54 bits, the mantissa and the bit below it; st tells that more is
\* below: to nearest, ties to even
RoundHalf(s, N, e, st) ==
    RoundUp(s, N[2] \div 2, (N[1] \div 2) + (N[2] % 2) * (2 ^ 26), e,
            N[1] % 2 = 1 /\ (st \/ (N[1] \div 2) % 2 = 1))

RoundCut(s, W, e, sticky, k, N) == RoundHalf(s, N, e + k + 1, sticky \/ ShlBy(N, k \div 27, k % 27) # W)

RoundLeft(s, M, e) == FPack(s, M[2], M[1], e)

RoundLen(s, W, e, sticky, len) ==
    IF len <= 53 THEN RoundLeft(s, WShl(W, 53 - len), e - (53 - len))
    ELSE RoundCut(s, W, e, sticky, len - 54, WShr(W, len - 54))

\* the double nearest to s * W * 2^e (W # 0), ties to even; sticky tells that
\* the number is a little above W * 2^e
Round(s, W, e, sticky) == RoundLen(s, W, e, sticky, WBitLen(W))

\* float(n) of an int
FromInt(n) ==
    IF n = 0 THEN FZero
    ELSE Round(IF n < 0 THEN -1 ELSE 1, <<IF n < 0 THEN -n ELSE n, 0, 0, 0>>, 0, FALSE)

Wide(p) == <<p[2], p[1], 0, 0>>

Pair(W) == <<W[2], W[1]>>

\* the digit est or est + 1, whichever leaves a remainder below D, with that
\* remainder; rem0 is what est leaves
DigitFix(rem0, D, est) ==
    IF WLess(rem0, D) THEN <<est, Pair(rem0)>> ELSE <<est + 1, Pair(WSub(rem0, D))>>

DigitFrom(r2, D, est) == DigitFix(WSub(r2, WMulSmall(D, est)), D, est)

\* One digit of 9 bits of the long division of the remainder r by d (both
\* <<high limb, low limb>>, r < d, d of 53 bits), with the remainder it
\* leaves.  The digit is estimated from the leading bits, never above it and
\* below it by one at most.
DivDigit(r, d) ==
    DigitFrom(WShl(Wide(r), 9), Wide(d),
              (r[1] * 32 + (r[2] \div (2 ^ 22))) \div ((d[1] \div 16) + 1))

PrependDigit(q, rest) == << <<q>> \o rest[1], rest[2] >>

\* <<the next n digits of r / d, whether a remainder is left>>
RECURSIVE DivDigits(_, _, _)
DivNext(qr, d, n) == PrependDigit(qr[1], DivDigits(qr[2], d, n - 1))

DivDigits(r, d, n) ==
    IF n = 0 THEN <<<<>>, r # <<0, 0>> >> ELSE DivNext(DivDigit(r, d), d, n)

\* the quotient of the mantissas: one bit and six digits of 9 bits
FDivRound(s, e, ge, g, sticky) ==
    Round(s,
          <<g[4] * 2 ^ 18 + g[5] * 2 ^ 9 + g[6], g[1] * 2 ^ 18 + g[2] * 2 ^ 9 + g[3],
            IF ge THEN 1 ELSE 0, 0>>,
          e, sticky)

FDivDigits(s, e, ge, q) == FDivRound(s, e, ge, q[1], q[2])

FDivFrom(X, Y, ge) ==
    FDivDigits(X.s * Y.s, X.e - Y.e - 54, ge,
               DivDigits(IF ge THEN Pair(WSub(<<X.lo, X.hi, 0, 0>>, <<Y.lo, Y.hi, 0, 0>>))
                         ELSE <<X.hi, X.lo>>,
                         <<Y.hi, Y.lo>>, 6))

\* X / Y of two floats, Y # 0.0: the quotient of the mantissas to 55 bits and
\* what is left, rounded
FDiv(X, Y) ==
    IF X.s = 0 THEN FZero
    ELSE FDivFrom(X, Y, X.hi > Y.hi \/ (X.hi = Y.hi /\ X.lo >= Y.lo))

\* X * n of a float and an int, |n| < 2^16
FMulInt(X, n) ==
    IF X.s = 0 \/ n = 0 THEN FZero
    ELSE Round(IF n < 0 THEN -X.s ELSE X.s,
               WMulSmall(<<X.lo, X.hi, 0, 0>>, IF n < 0 THEN -n ELSE n), X.e, FALSE)

FNeg(X) == [X EXCEPT !.s = -X.s]

\* abs(X)
FAbs(X) == [X EXCEPT !.s = IF X.s = 0 THEN 0 ELSE 1]

\* sa * A + sb * B, times 2^e
AddWide(sa, sb, A, B, e) ==
    IF sa # sb /\ A = B THEN FZero
    ELSE Round(IF sa = sb \/ WLess(B, A) THEN sa ELSE sb,
               IF sa = sb THEN WAdd(A, B) ELSE IF WLess(A, B) THEN WSub(B, A) ELSE WSub(A, B),
               e, FALSE)

\* the sum of two floats # 0.0, the exponent of big not below that of small;
\* an operand below half a unit in the last place of the other changes nothing
AddAligned(big, small) ==
    IF big.e - small.e >= 55 THEN big
    ELSE AddWide(big.s, small.s, WShl(<<big.lo, big.hi, 0, 0>>, big.e - small.e),
                 <<small.lo, small.hi, 0, 0>>, small.e)

\* X + Y
FAdd(X, Y) ==
    IF X.s = 0 THEN Y
    ELSE IF Y.s = 0 THEN X
    ELSE IF X.e >= Y.e THEN AddAligned(X, Y) ELSE AddAligned(Y, X)

\* X - Y
FSub(X, Y) == FAdd(X, FNeg(Y))

MagLess(X, Y) ==
    \/ X.e < Y.e
    \/ X.e = Y.e /\ (X.hi < Y.hi \/ (X.hi = Y.hi /\ X.lo < Y.lo))

\* X < Y
FLess(X, Y) ==
    IF X.s # Y.s THEN X.s < Y.s
    ELSE IF X.s = 0 THEN FALSE
    ELSE IF X.s = 1 THEN MagLess(X, Y) ELSE MagLess(Y, X)

\* X >= Y
FGeq(X, Y) == ~FLess(X, Y)

IntPartOf(X, W) == <<W[1] + W[2] * Limb, WShl(W, -X.e) = <<X.lo, X.hi, 0, 0>> >>

\* <<the integer part of |X|, whether |X| is that integer>>, for |X| < 2^30
IntPart(X) ==
    IF X.s = 0 THEN <<0, TRUE>>
    ELSE IF -X.e >= 53 THEN <<0, FALSE>>
    ELSE IntPartOf(X, WShr(<<X.lo, X.hi, 0, 0>>, -X.e))

\* int(X): truncation towards zero
FInt(X) == X.s * IntPart(X)[1]

FloorOf(s, ip) == IF s >= 0 \/ ip[2] THEN s * ip[1] ELSE s * ip[1] - 1

\* math.floor(X)
FFloor(X) == FloorOf(X.s, IntPart(X))

CeilOf(s, ip) == IF s <= 0 \/ ip[2] THEN s * ip[1] ELSE s * ip[1] + 1

\* math.ceil(X)
FCeil(X) == CeilOf(X.s, IntPart(X))

\* the float a decimal literal stands for, the literal being a[1] / a[2]
Float(a) == FDiv(FromInt(a[1]), FromInt(a[2]))

----------------------------------------------------------------------------
(* find_best_mockup *)

\* best = {"mockup_path": ..., "frame_coords": ...}
Match(mockup_path, frame_coords) ==
    [kind |-> "match", mockup_path |-> mockup_path, frame_coords |-> frame_coords]

\* what find_best_mockup ends with after the loop
Selected(best, det) ==
    [ret |-> IF best = None THEN Raise("No suitable mockup found.", "")
             ELSE [kind |-> "ok", value |-> best],
     detected |-> det]

RECURSIVE BestFrom(_, _, _, _, _, _, _)

\* (mutation: a later candidate wins a tie)
CompareLastOnTie(candidates, i, art_width_in, art_height_in, best, smallest_diff, det, frame_coords, diff) ==
    IF ~FLess(smallest_diff, diff)
    THEN BestFrom(candidates, i + 1, art_width_in, art_height_in,
                  Match(candidates[i], frame_coords), diff, det)
    ELSE BestFrom(candidates, i + 1, art_width_in, art_height_in, best, smallest_diff, det)

\* if diff < smallest_diff: the candidate becomes the best one; then the next
\* pass of the loop
Compare(candidates, i, art_width_in, art_height_in, best, smallest_diff, det, frame_coords, diff) ==
    IF FLess(diff, smallest_diff)
    THEN BestFrom(candidates, i + 1, art_width_in, art_height_in,
                  Match(candidates[i], frame_coords), diff, det)
    ELSE BestFrom(candidates, i + 1, art_width_in, art_height_in, best, smallest_diff, det)

\* (mutation: a candidate whose detection fails is skipped)
ExamineSkipping(candidates, i, art_width_in, art_height_in, best, smallest_diff, det, d) ==
    IF d.kind = "error"
    THEN BestFrom(candidates, i + 1, art_width_in, art_height_in, best, smallest_diff, det)
    ELSE IF art_height_in.s = 0 THEN [ret |-> ZeroDivisionError, detected |-> det]
    ELSE Compare(candidates, i, art_width_in, art_height_in, best, smallest_diff, det, d.value,
                 FAbs(FSub(FDiv(FromInt(d.value[3]), FromInt(d.value[4])),
                           FDiv(art_width_in, art_height_in))))

\* The body of the loop for candidate i, d being what detect_frame_area gave
\* for it: its error is raised on; else frame_ratio = w / h, art_ratio =
\* art_width_in / art_height_in, which raises when art_height_in is 0.0, and
\* diff = abs(frame_ratio - art_ratio).
Examine(candidates, i, art_width_in, art_height_in, best, smallest_diff, det, d) ==
    IF d.kind = "error" THEN [ret |-> d, detected |-> det]
    ELSE IF art_height_in.s = 0 THEN [ret |-> ZeroDivisionError, detected |-> det]
    ELSE Compare(candidates, i, art_width_in, art_height_in, best, smallest_diff, det, d.value,
                 FAbs(FSub(FDiv(FromInt(d.value[3]), FromInt(d.value[4])),
                           FDiv(art_width_in, art_height_in))))

\* the loop over the candidates from index i on; det lists the paths
\* detect_frame_area has been run on
BestFrom(candidates, i, art_width_in, art_height_in, best, smallest_diff, det) ==
    IF i > Len(candidates) THEN Selected(best, det)
    ELSE Examine(candidates, i, art_width_in, art_height_in, best, smallest_diff,
                 Append(det, candidates[i]), detect_frame_area(candidates[i]))

\* (mutation: the vertical list stands in for a missing or
\* empty one)
CandidatesOrVertical(orientation) ==
    IF orientation \in DOMAIN catalog /\ catalog[orientation] # <<>>
    THEN catalog[orientation] ELSE catalog.vertical

\* MOCKUPS.get(orientation, [])
Candidates(orientation) ==
    IF orientation \in DOMAIN catalog THEN catalog[orientation] ELSE <<>>

SelectAmong(candidates, orientation, art_width_in, art_height_in) ==
    IF candidates = <<>>
    THEN [ret |-> Raise("No mockups available for orientation", orientation),
          detected |-> <<>>]
    ELSE BestFrom(candidates, 1, art_width_in, art_height_in, None, FInf, <<>>)

\* art_width_in and art_height_in are floats
find_best_mockup(orientation, art_width_in, art_height_in) ==
    SelectAmong(Candidates(orientation), orientation, art_width_in, art_height_in)

----------------------------------------------------------------------------
(* overlay_in_frame *)

\* round_aspect of Image.thumbnail:
\*   max(min(math.floor(number), math.ceil(number), key=key), 1)
\* with f and c the floor and the ceil, keyF and keyC their keys: min keeps
\* the floor unless the key of the ceil is smaller
RoundAspect(f, c, keyF, keyC) ==
    IF FLess(keyC, keyF) THEN (IF c < 1 THEN 1 ELSE c) ELSE (IF f < 1 THEN 1 ELSE f)

\* key=lambda n: abs(aspect - n / y)
KeyX(aspect, n, y) == FAbs(FSub(aspect, FDiv(FromInt(n), FromInt(y))))

\* key=lambda n: 0 if n == 0 else abs(aspect - x / n)
KeyY(aspect, n, x) == IF n = 0 THEN FZero ELSE FAbs(FSub(aspect, FDiv(FromInt(x), FromInt(n))))

\* x = round_aspect(y * aspect, key), the floor and the ceil of y * aspect given
RoundAspectX(f, c, aspect, y) == RoundAspect(f, c, KeyX(aspect, f, y), KeyX(aspect, c, y))

\* y = round_aspect(x / aspect, key), the floor and the ceil of x / aspect given
RoundAspectY(f, c, aspect, x) == RoundAspect(f, c, KeyY(aspect, f, x), KeyY(aspect, c, x))

ScaledX(number, aspect, y) == RoundAspectX(FFloor(number), FCeil(number), aspect, y)

ScaledY(number, aspect, x) == RoundAspectY(FFloor(number), FCeil(number), aspect, x)

\* the size the box x, y is cut to, to keep the aspect (a float) of the image
PreserveAspect(aspect, x, y) ==
    IF FGeq(FDiv(FromInt(x), FromInt(y)), aspect)
    THEN <<ScaledX(FMulInt(aspect, y), aspect, y), y>>
    ELSE <<x, ScaledY(FDiv(FromInt(x), aspect), aspect, x)>>

\* (mutation: the image is fitted to the box, enlarged if
\* need be)
thumbnailFitted(size, x, y) ==
    PreserveAspect(FDiv(FromInt(size[1]), FromInt(size[2])), x, y)

\* fg.thumbnail((x, y), LANCZOS) on an image of size <<W, H>>: the size it is
\* left with.  An image the box holds is left alone; else aspect = W / H.
thumbnail(size, x, y) ==
    IF x >= size[1] /\ y >= size[2] THEN size
    ELSE PreserveAspect(FDiv(FromInt(size[1]), FromInt(size[2])), x, y)

\* (mutation: the floor instead of int())
margin_px_floor(margin_inch) == FFloor(FMulInt(margin_inch, DPI))

\* int(margin_inch * DPI), margin_inch a float
margin_px_of(margin_inch) == FInt(FMulInt(margin_inch, DPI))

\* (mutation: the margin taken off the width once)
InnerFrameOnce(frame_coords, margin_px) ==
    <<frame_coords[1] + margin_px, frame_coords[2] + margin_px,
      frame_coords[3] - margin_px, frame_coords[4] - 2 * margin_px>>

\* the rectangle left inside frame_coords by the margin
InnerFrame(frame_coords, margin_px) ==
    <<frame_coords[1] + margin_px, frame_coords[2] + margin_px,
      frame_coords[3] - 2 * margin_px, frame_coords[4] - 2 * margin_px>>

\* (mutation: the gap is not halved)
CentreNotHalved(origin, frame_len, fg_len) == origin + (frame_len - fg_len)

\* pos = frame origin + (frame size - fg size) // 2
Centre(origin, frame_len, fg_len) == origin + (frame_len - fg_len) \div 2

\* bg.paste(fg, (pos_x, pos_y), fg) and bg.save(output_path), fg being the
\* foreground after thumbnail
Paste(mockup_path, output_path, margin_px, inner, fg) ==
    [ret |-> [kind |-> "ok", value |-> "None"],
     locals |-> [kind |-> "locals", margin_px |-> margin_px, inner |-> inner],
     pasted |-> [kind |-> "paste",
                 pos |-> <<Centre(inner[1], inner[3], fg[1]), Centre(inner[2], inner[4], fg[2])>>,
                 size |-> fg],
     saved |-> [kind |-> "file", path |-> output_path,
                size |-> <<files[mockup_path].w, files[mockup_path].h>>]]

\* from the check of the margin on; inner is <<frame_x, frame_y, frame_w,
\* frame_h>> after the margin
OverlayInner(mockup_path, fg_size, output_path, margin_px, inner) ==
    IF inner[3] <= 0 \/ inner[4] <= 0
    THEN [ret |-> Raise("Margin too large compared to frame size!", ""),
          locals |-> [kind |-> "locals", margin_px |-> margin_px, inner |-> inner],
          pasted |-> None, saved |-> None]
    ELSE Paste(mockup_path, output_path, margin_px, inner,
               thumbnail(fg_size, inner[3], inner[4]))

OverlayWithMargin(mockup_path, frame_coords, fg_size, output_path, margin_px) ==
    OverlayInner(mockup_path, fg_size, output_path, margin_px,
                 InnerFrame(frame_coords, margin_px))

\* fg_size is the size of the image at foreground_path, margin_inch a float
overlay_in_frame(mockup_path, frame_coords, fg_size, output_path, margin_inch) ==
    OverlayWithMargin(mockup_path, frame_coords, fg_size, output_path,
                      margin_px_of(margin_inch))

----------------------------------------------------------------------------
(* main *)

\* pixels / ppi
InchesOf(px, ppi) == FDiv(FromInt(px), FromInt(ppi))

\* (mutation: a square is horizontal)
OrientationStrict(width_in, height_in) ==
    IF FLess(width_in, height_in) THEN "vertical" ELSE "horizontal"

\* "vertical" if height_in >= width_in else "horizontal"
Orientation(width_in, height_in) ==
    IF FGeq(height_in, width_in) THEN "vertical" ELSE "horizontal"

\* margin_inch = 0.01
MarginInch == Float(<<1, 100>>)

MainResult(orientation, ret_, det, locals_, pasted_, saved_) ==
    [orientation |-> orientation, ret |-> ret_, detected |-> det,
     locals |-> locals_, pasted |-> pasted_, saved |-> saved_]

MainOverlaid(orientation, det, o) ==
    MainResult(orientation, o.ret, det, o.locals, o.pasted, o.saved)

\* sel is what find_best_mockup gave: its error ends main, its match is
\* overlaid
MainSelected(fg_size, output_path, orientation, sel) ==
    IF sel.ret.kind = "error"
    THEN MainResult(orientation, sel.ret, sel.detected, None, None, None)
    ELSE MainOverlaid(orientation, sel.detected,
                      overlay_in_frame(sel.ret.value.mockup_path, sel.ret.value.frame_coords,
                                       fg_size, output_path, MarginInch))

MainOriented(fg_size, output_path, width_in, height_in, orientation) ==
    MainSelected(fg_size, output_path, orientation,
                 find_best_mockup(orientation, width_in, height_in))

MainInches(fg_size, output_path, width_in, height_in) ==
    MainOriented(fg_size, output_path, width_in, height_in, Orientation(width_in, height_in))

\* main on a foreground of size fg_size
main(fg_size, output_path) ==
    MainInches(fg_size, output_path, InchesOf(fg_size[1], PPI), InchesOf(fg_size[2], PPI))

----------------------------------------------------------------------------
(* The detector alone, on every image of ImgW x ImgH pixels made of a        *)
(* background colour and up to two filled rectangles of another colour, and *)
(* on every image of RingW x RingH pixels made of the outline of a          *)
(* rectangle and a filled rectangle within its bounds.                      *)

DetectPath == "mockup_vertical_small.jpeg"

Within(r2, r1) == r1.x0 <= r2.x0 /\ r2.x1 <= r1.x1 /\ r1.y0 <= r2.y0 /\ r2.y1 <= r1.y1

InitDetect ==
    /\ catalog = [vertical |-> <<DetectPath>>]
    /\ \/ \E bg \in {Black, Grey240, White}, fg \in {Grey240, Grey241, White, Yellow},
             r1 \in RectsIn(ImgW, ImgH) \cup {NoRect}, r2 \in RectsIn(ImgW, ImgH) \cup {NoRect} :
             files = [p \in {DetectPath} |-> Paint(ImgW, ImgH, bg, fg, r1, r2)]
       \/ \E r1 \in RectsIn(RingW, RingH), r2 \in RectsIn(RingW, RingH) :
             /\ Within(r2, r1)
             /\ files = [p \in {DetectPath} |-> PaintOutline(RingW, RingH, Black, White, r1, r2)]
    /\ call = None
    /\ ret = None
    /\ detected = <<>>
    /\ locals = None
    /\ pasted = None
    /\ saved = None

\* one call per run, on any of the files
DetectFrameArea ==
    /\ call = None
    /\ \E path \in DOMAIN files :
          /\ call' = [kind |-> "detect_frame_area", image_path |-> path]
          /\ ret' = detect_frame_area(path)
          /\ detected' = <<path>>
    /\ UNCHANGED <<catalog, files, locals, pasted, saved>>

NextDetect == DetectFrameArea

SpecDetect == InitDetect /\ [][NextDetect]_vars

----------------------------------------------------------------------------
(* overlay_in_frame alone, on every frame, foreground size and margin of    *)
(* the bounds.  The margins are the floats nearest to k/256 inch and to the *)
(* hundredths of an inch of CentiMargins: 0.01 as in main, 0.29 and 0.57,   *)
(* whose products with DPI are rounded, and -0.57.                          *)

OverlayFile == Paint(CanvasW, CanvasH, Black, White, [x0 |-> 1, y0 |-> 1, x1 |-> 6, y1 |-> 6], NoRect)

CentiMargins == {1, 29, 57, -57}

Margins ==
    {Float(<<k, 256>>) : k \in -MaxMargin .. MaxMargin} \cup {Float(<<k, 100>>) : k \in CentiMargins}

InitOverlay ==
    /\ catalog = MOCKUPS
    /\ files = [p \in Paths |-> OverlayFile]
    /\ call = None
    /\ ret = None
    /\ detected = <<>>
    /\ locals = None
    /\ pasted = None
    /\ saved = None

\* one call per run, on any frame, foreground size and margin of the bounds
OverlayInFrame ==
    /\ call = None
    /\ \E x \in 0 .. 1, w \in 1 .. MaxFrame, h \in 1 .. MaxFrame,
          W \in 1 .. MaxFg, H \in 1 .. MaxFg, margin_inch \in Margins :
          LET mockup_path == "mockup_horizontal_large.png"
              frame_coords == <<x, 1, w, h>>
              fg_size == <<W, H>>
              output_path == "out.png"
              o == overlay_in_frame(mockup_path, frame_coords, fg_size, output_path,
                                    margin_inch)
          IN /\ call' = [kind |-> "overlay_in_frame", mockup_path |-> mockup_path,
                         frame_coords |-> frame_coords, fg_size |-> fg_size,
                         output_path |-> output_path, margin_inch |-> margin_inch]
             /\ ret' = o.ret
             /\ locals' = o.locals
             /\ pasted' = o.pasted
             /\ saved' = o.saved
    /\ UNCHANGED <<catalog, files, detected>>

NextOverlay == OverlayInFrame

SpecOverlay == InitOverlay /\ [][NextOverlay]_vars

----------------------------------------------------------------------------
(* The program: a catalog, reference images on disk, and one run of main,   *)
(* find_best_mockup or detect_frame_area.                                   *)

Frame(x0, y0, w, h) == [x0 |-> x0, y0 |-> y0, x1 |-> x0 + w - 1, y1 |-> y0 + h - 1]

SampleImages ==
    { Paint(CanvasW, CanvasH, Yellow, White, Frame(1, 1, 1, 3), NoRect),
      Paint(CanvasW, CanvasH, Black, White, Frame(1, 1, 2, 3), NoRect),
      Paint(CanvasW, CanvasH, Grey240, Grey241, Frame(0, 0, 8, 8), NoRect),
      Paint(CanvasW, CanvasH, Black, Grey241, Frame(3, 1, 2, 4), Frame(0, 6, 2, 1)),
      Paint(CanvasW, CanvasH, Black, Grey240, Frame(1, 1, 8, 4), NoRect) }

\* (the frames detected: 1 x 3, 2 x 3, 8 x 8, 2 x 4 beside a smaller bright
\* strip, and none in the last image, whose rectangle is not above 240)

\* the catalog as shipped, and one edited to hold an empty list
Catalogs ==
    { MOCKUPS,
      [vertical |-> <<"mockup_horizontal_large.png", "mockup_vertical_small.jpeg",
                      "mockup_vertical_large.jpeg">>,
       horizontal |-> <<>>] }

FgDims == 1 .. MaxFgDim

ArtWidths == {FromInt(n) : n \in 0 .. MaxArt}

\* 0.0 included: the division of line 74 then raises
ArtHeights == {FromInt(n) : n \in 0 .. MaxArt + 1}

Orientations == {"vertical", "horizontal", "square"}

Init ==
    /\ catalog \in Catalogs
    /\ files \in [Paths -> SampleImages]
    /\ call = None
    /\ ret = None
    /\ detected = <<>>
    /\ locals = None
    /\ pasted = None
    /\ saved = None

\* one call per run, with any orientation and art size of the bounds
FindBestMockup ==
    /\ call = None
    /\ \E orientation \in Orientations, art_width_in \in ArtWidths, art_height_in \in ArtHeights :
          LET r == find_best_mockup(orientation, art_width_in, art_height_in)
          IN /\ call' = [kind |-> "find_best_mockup", orientation |-> orientation,
                         art_width_in |-> art_width_in, art_height_in |-> art_height_in]
             /\ ret' = r.ret
             /\ detected' = r.detected
    /\ UNCHANGED <<catalog, files, locals, pasted, saved>>

\* one run of the script, on a foreground of any size of the bounds
Main ==
    /\ call = None
    /\ \E W \in FgDims, H \in FgDims :
          LET r == main(<<W, H>>, "out.png")
          IN /\ call' = [kind |-> "main", fg_size |-> <<W, H>>, output_path |-> "out.png",
                         orientation |-> r.orientation]
             /\ ret' = r.ret
             /\ detected' = r.detected
             /\ locals' = r.locals
             /\ pasted' = r.pasted
             /\ saved' = r.saved
    /\ UNCHANGED <<catalog, files>>

Next == DetectFrameArea \/ FindBestMockup \/ Main

Spec == Init /\ [][Next]_vars

----------------------------------------------------------------------------
(* The claims *)

\* the pixels of an image with intensity above 240
Bright(img) == {p \in DOMAIN img.px : cvtColor(img)[p] > 240}

\* the bounding box of a set of pixels, as <<x, y, width, height>>
Box(S) ==
    <<Min({p[1] : p \in S}), Min({p[2] : p \in S}),
      Max({p[1] : p \in S}) - Min({p[1] : p \in S}) + 1,
      Max({p[2] : p \in S}) - Min({p[2] : p \in S}) + 1>>

\* a non-empty set of pixels that fills its bounding box
IsRectangle(S) == S # {} /\ Cardinality(S) = Box(S)[3] * Box(S)[4]

Regions(img) == LET cs == ComponentsOf(Bright(img)) IN {cs[i] : i \in 1 .. Len(cs)}

IsDetectionError(r, path) == r = Raise("No contours found in image", path)

IsConfigurationError(r) == r.kind = "error" /\ r.msg = "No mockups available for orientation"

IsMarginError(r) == r = Raise("Margin too large compared to frame size!", "")

\* C7: when the bright pixels (intensity > 240) of the image form exactly one
\* axis-aligned rectangle, detect_frame_area returns that rectangle's
\* (x, y, width, height); every rectangle it returns has width > 0 and
\* height > 0; and with several bright regions it returns the bounding
\* rectangle of a region whose contour encloses the largest area (for a
\* rectangular region that area is (width - 1) * (height - 1)).
C7_DetectsTheLargestBrightRegion ==
    call.kind = "detect_frame_area" =>
        LET img == files[call.image_path]
            B == Bright(img)
        IN /\ IsRectangle(B) => ret = [kind |-> "ok", value |-> Box(B)]
           /\ ret.kind = "ok" => ret.value[3] > 0 /\ ret.value[4] > 0
           /\ B # {} =>
                \E C \in Regions(img) :
                    /\ ret = [kind |-> "ok", value |-> Box(C)]
                    /\ \A D \in Regions(img) : contourArea2(D) <= contourArea2(C)
           /\ \A C \in Regions(img) :
                IsRectangle(C) => contourArea2(C) = 2 * (Box(C)[3] - 1) * (Box(C)[4] - 1)

\* two bright regions of different area, the one found first in the scan
\* being the larger, and the larger one's rectangle returned
C7_Witness ==
    /\ call.kind = "detect_frame_area"
    /\ LET cs == ComponentsOf(Bright(files[call.image_path]))
       IN /\ Len(cs) = 2
          /\ contourArea2(cs[1]) > contourArea2(cs[2])
          /\ ret = [kind |-> "ok", value |-> Box(cs[1])]

\* C8: detect_frame_area fails with the detection error, naming the image,
\* exactly when no pixel of the image has intensity strictly above 240 (240
\* itself is not bright); with a pixel above 240 it returns a rectangle.
C8_DetectionErrorIffNoBrightPixel ==
    call.kind = "detect_frame_area" =>
        LET img == files[call.image_path]
        IN /\ Bright(img) = {} => IsDetectionError(ret, call.image_path)
           /\ Bright(img) # {} => ret.kind = "ok"

\* an image with pixels of intensity exactly 240 and none above fails
C8_Witness ==
    /\ call.kind = "detect_frame_area"
    /\ \E p \in DOMAIN files[call.image_path].px : cvtColor(files[call.image_path])[p] = 240
    /\ IsDetectionError(ret, call.image_path)

\* the candidates of the call, and what the claims need of them
CallCandidates == Candidates(call.orientation)

Undetectable(path) == Bright(files[path]) = {}

\* diff = |frame_w / frame_h - art_width / art_height| of candidate i, in the
\* floats of the program
DiffOf(i) ==
    LET d == detect_frame_area(CallCandidates[i]).value
    IN FAbs(FSub(FDiv(FromInt(d[3]), FromInt(d[4])),
                 FDiv(call.art_width_in, call.art_height_in)))

\* C1: for an orientation with a non-empty list, all of whose candidates are
\* detected, and art_width, art_height > 0, find_best_mockup returns a
\* candidate of the list whose diff is the minimum over the list, the
\* earliest in catalog order of those with that diff, together with the
\* rectangle detected in it.
C1_ReturnsEarliestClosestCandidate ==
    (/\ call.kind = "find_best_mockup"
     /\ CallCandidates # <<>>
     /\ call.art_width_in.s = 1
     /\ call.art_height_in.s = 1
     /\ \A i \in 1 .. Len(CallCandidates) : ~Undetectable(CallCandidates[i]))
    => /\ ret.kind = "ok"
       /\ \E i \in 1 .. Len(CallCandidates) :
            /\ ret.value.mockup_path = CallCandidates[i]
            /\ ret.value.frame_coords = detect_frame_area(CallCandidates[i]).value
            /\ \A j \in 1 .. Len(CallCandidates) : ~FLess(DiffOf(j), DiffOf(i))
            /\ \A j \in 1 .. i - 1 : FLess(DiffOf(i), DiffOf(j))

\* two candidates of different frame ratio at the same, minimal diff: the
\* earlier one is returned
C1_Witness ==
    /\ call.kind = "find_best_mockup"
    /\ ret.kind = "ok"
    /\ \E i, j \in 1 .. Len(CallCandidates) :
         /\ i < j
         /\ ret.value.mockup_path = CallCandidates[i]
         /\ ~Undetectable(CallCandidates[j])
         /\ detect_frame_area(CallCandidates[j]).value[3] * ret.value.frame_coords[4]
              # detect_frame_area(CallCandidates[j]).value[4] * ret.value.frame_coords[3]
         /\ DiffOf(i) = DiffOf(j)

\* C2: detection is run on the candidates in catalog order, none skipped, and
\* a match is returned only after it ran on all of them; if detection fails
\* on a candidate, find_best_mockup fails with that detection error there,
\* having run detection on no later candidate, whatever the earlier and later
\* candidates hold, and nothing is written.  For a call with an art ratio
\* (art_height not 0.0; main is one) the failure is certain: with an
\* undetectable candidate at any position, the call fails with the detection
\* error of the first such candidate.
C2_FailFastOnDetectionError ==
    call.kind \in {"find_best_mockup", "main"} =>
        /\ Len(detected) <= Len(CallCandidates)
        /\ detected = SubSeq(CallCandidates, 1, Len(detected))
        /\ ret.kind = "ok" => detected = CallCandidates
        /\ \A i \in 1 .. Len(detected) :
              Undetectable(detected[i]) =>
                  /\ IsDetectionError(ret, detected[i])
                  /\ i = Len(detected)
                  /\ saved = None
        /\ \A i \in 1 .. Len(CallCandidates) :
              (/\ Undetectable(CallCandidates[i])
               /\ \A j \in 1 .. i - 1 : ~Undetectable(CallCandidates[j])
               /\ (call.kind = "main" \/ call.art_height_in.s # 0))
              => /\ IsDetectionError(ret, CallCandidates[i])
                 /\ detected = SubSeq(CallCandidates, 1, i)

\* the second of three candidates fails, the first and the third would be
\* detected
C2_Witness ==
    /\ call.kind = "find_best_mockup"
    /\ Len(CallCandidates) = 3
    /\ ~Undetectable(CallCandidates[1])
    /\ Undetectable(CallCandidates[2])
    /\ ~Undetectable(CallCandidates[3])
    /\ IsDetectionError(ret, CallCandidates[2])

\* C3: find_best_mockup fails with the configuration error exactly when the
\* orientation is no key of the catalog or its list is empty, and then it has
\* run detection on no image.
C3_ConfigurationErrorIffNoCandidates ==
    call.kind = "find_best_mockup" =>
        /\ IsConfigurationError(ret) <=>
             (call.orientation \notin DOMAIN catalog \/ catalog[call.orientation] = <<>>)
        /\ IsConfigurationError(ret) => detected = <<>> /\ ret.arg = call.orientation

\* a key of the catalog whose list is empty
C3_Witness ==
    /\ call.kind = "find_best_mockup"
    /\ call.orientation \in DOMAIN catalog
    /\ catalog[call.orientation] = <<>>
    /\ IsConfigurationError(ret)
    /\ detected = <<>>

\* C6: main classifies the foreground as "vertical" exactly when
\* height_px >= width_px and as "horizontal" otherwise, whatever the positive
\* ppi; a square is vertical; find_best_mockup is passed one of the two tags.
C6_OrientationByPixelSize ==
    call.kind = "main" =>
        LET expected == IF call.fg_size[2] >= call.fg_size[1] THEN "vertical" ELSE "horizontal"
        IN /\ call.orientation = expected
           /\ call.orientation \in {"vertical", "horizontal"}
           /\ \A ppi \in 1 .. MaxPpi :
                Orientation(InchesOf(call.fg_size[1], ppi), InchesOf(call.fg_size[2], ppi))
                    = expected

\* a square foreground, classified vertical
C6_Witness ==
    /\ call.kind = "main"
    /\ call.fg_size[1] = call.fg_size[2]
    /\ call.orientation = "vertical"

\* C4: overlay_in_frame fails with the margin error exactly when
\* w - 2 * margin_px <= 0 or h - 2 * margin_px <= 0; then nothing is pasted
\* and nothing is written; otherwise it pastes and writes the output.
C4_MarginErrorIffNoRoom ==
    call.kind = "overlay_in_frame" =>
        LET noRoom == \/ call.frame_coords[3] - 2 * locals.margin_px <= 0
                      \/ call.frame_coords[4] - 2 * locals.margin_px <= 0
        IN /\ IsMarginError(ret) <=> noRoom
           /\ IsMarginError(ret) => pasted = None /\ saved = None
           /\ ~noRoom => ret.kind = "ok" /\ pasted.kind = "paste" /\ saved.kind = "file"

\* the margin leaves no width but some height
C4_Witness ==
    /\ call.kind = "overlay_in_frame"
    /\ call.frame_coords[3] - 2 * locals.margin_px <= 0
    /\ call.frame_coords[4] - 2 * locals.margin_px > 0
    /\ IsMarginError(ret)
    /\ saved = None

\* C5: the foreground is only scaled down: its scaled size is at most its
\* original size and at most the inner size, in width and in height, and a
\* foreground that fits the inner rectangle keeps its size.
C5_ScaledDownNeverUp ==
    (call.kind = "overlay_in_frame" /\ ret.kind = "ok") =>
        /\ pasted.size[1] <= call.fg_size[1]
        /\ pasted.size[2] <= call.fg_size[2]
        /\ pasted.size[1] <= locals.inner[3]
        /\ pasted.size[2] <= locals.inner[4]
        /\ pasted.size[1] >= 1 /\ pasted.size[2] >= 1
        /\ (call.fg_size[1] <= locals.inner[3] /\ call.fg_size[2] <= locals.inner[4])
             => pasted.size = call.fg_size

\* a foreground smaller than the inner rectangle, pasted at its own size
C5_Witness ==
    /\ call.kind = "overlay_in_frame"
    /\ ret.kind = "ok"
    /\ call.fg_size[1] < locals.inner[3]
    /\ call.fg_size[2] < locals.inner[4]
    /\ pasted.size = call.fg_size

\* the float product margin_inch * dpi of the call
MarginProduct == FMulInt(call.margin_inch, DPI)

\* C9 as stated: margin_px = floor(margin_inch * dpi) for every margin_inch,
\* negative and fractional ones included: margin_px <= margin_inch * dpi <
\* margin_px + 1; and the inner rectangle is
\* (x + margin_px, y + margin_px, w - 2 * margin_px, h - 2 * margin_px).
C9_MarginPxIsFloor ==
    call.kind = "overlay_in_frame" =>
        LET m == locals.margin_px
            c == call.frame_coords
        IN /\ FGeq(MarginProduct, FromInt(m))
           /\ FLess(MarginProduct, FromInt(m + 1))
           /\ locals.inner = <<c[1] + m, c[2] + m, c[3] - 2 * m, c[4] - 2 * m>>

\* C9, amended: margin_px is the float product margin_inch * dpi truncated
\* towards zero: margin_px <= product < margin_px + 1 for a product >= 0 (its
\* floor), margin_px - 1 < product <= margin_px for a product < 0 (its
\* ceiling); and the inner rectangle is
\* (x + margin_px, y + margin_px, w - 2 * margin_px, h - 2 * margin_px).
C9_MarginPxIsTruncation ==
    call.kind = "overlay_in_frame" =>
        LET m == locals.margin_px
            c == call.frame_coords
            p == MarginProduct
        IN /\ p.s >= 0 => FGeq(p, FromInt(m)) /\ FLess(p, FromInt(m + 1))
           /\ p.s < 0 => FLess(FromInt(m - 1), p) /\ FGeq(FromInt(m), p)
           /\ locals.inner = <<c[1] + m, c[2] + m, c[3] - 2 * m, c[4] - 2 * m>>

\* a negative fractional margin: margin_px is above the product, not below
C9_Witness ==
    /\ call.kind = "overlay_in_frame"
    /\ MarginProduct.s = -1
    /\ FLess(MarginProduct, FromInt(locals.margin_px))
    /\ ret.kind = "ok"

\* C10: when overlay_in_frame succeeds, the foreground is pasted at
\* (inner_x + (inner_w - fg_w) // 2, inner_y + (inner_h - fg_h) // 2); the
\* pasted rectangle lies inside the inner rectangle, its left and right gaps
\* and its top and bottom gaps differing by at most 1; and for
\* margin_px >= 0 it lies inside the frame rectangle.
C10_PastedCentredInsideInner ==
    (call.kind = "overlay_in_frame" /\ ret.kind = "ok") =>
        LET ix == locals.inner[1]
            iy == locals.inner[2]
            iw == locals.inner[3]
            ih == locals.inner[4]
            px == pasted.pos[1]
            py == pasted.pos[2]
            fw == pasted.size[1]
            fh == pasted.size[2]
            c == call.frame_coords
        IN /\ px = ix + (iw - fw) \div 2
           /\ py = iy + (ih - fh) \div 2
           /\ ix <= px /\ px + fw <= ix + iw
           /\ iy <= py /\ py + fh <= iy + ih
           /\ Abs((px - ix) - ((ix + iw) - (px + fw))) <= 1
           /\ Abs((py - iy) - ((iy + ih) - (py + fh))) <= 1
           /\ locals.margin_px >= 0 =>
                /\ c[1] <= px /\ px + fw <= c[1] + c[3]
                /\ c[2] <= py /\ py + fh <= c[2] + c[4]

\* a positive margin and a foreground scaled down, with an odd gap across
C10_Witness ==
    /\ call.kind = "overlay_in_frame"
    /\ ret.kind = "ok"
    /\ locals.margin_px > 0
    /\ pasted.size # call.fg_size
    /\ (locals.inner[3] - pasted.size[1]) % 2 = 1
    /\ pasted.pos[1] > locals.inner[1]

====
